---- MODULE Spec2Model ----
(***************************************************************************)
(* Model of python_service/main.py: the POST /chat handler (chat_endpoint) *)
(* with its start-up state, the model fallback loop, the interpretation of *)
(* the model's text, the aggregation call and the summarizer call.         *)
(*                                                                         *)
(* Strings are sequences of tokens.  The tokens that the code looks at are *)
(* "[fence]" (the three backquotes of a code-fence marker), "json" (the    *)
(* word after an opening fence), " " (a maximal run of whitespace) and the *)
(* names of JSON bodies, whose parse is given by Body.  Error messages are *)
(* sequences of the words that the fallback loop searches for.             *)
(***************************************************************************)
EXTENDS Integers, Sequences, FiniteSets, TLC

\* ------------------------------------------------------------------ bounds
\* Largest number of records an aggregation returns in the model.
MaxRecords == 12

\* ------------------------------------------------------- program constants
\* results[:10] in the summary prompt.
SummaryLimit == 10

models_to_try ==
  << "gemini-1.5-flash", "gemini-1.5-flash-8b", "gemini-2.0-flash",
     "gemini-2.0-flash-lite", "gemini-2.0-flash-exp", "gemini-1.5-pro" >>

NumModels == Len(models_to_try)

\* Python's None where a text or a model name is expected.
None == << "None" >>
NoModel == "None"

\* --------------------------------------------------------- token sequences
\* the three backquotes of a code-fence marker
TICKS == "[fence]"
JSONWORD == "json"
WS == " "

RECURSIVE LStrip(_)
LStrip(s) == IF s # << >> /\ Head(s) = WS THEN LStrip(Tail(s)) ELSE s

RECURSIVE RStrip(_)
RStrip(s) ==
  IF s # << >> /\ s[Len(s)] = WS THEN RStrip(SubSeq(s, 1, Len(s) - 1)) ELSE s

\* str.strip()
Strip(s) == RStrip(LStrip(s))

\* str.startswith(p), str.endswith(p)
StartsWith(s, p) == Len(s) >= Len(p) /\ SubSeq(s, 1, Len(p)) = p
EndsWith(s, p) == Len(s) >= Len(p) /\ SubSeq(s, Len(s) - Len(p) + 1, Len(s)) = p

\* s[n:] and s[:-n] counted in tokens
DropFirst(s, n) == SubSeq(s, n + 1, Len(s))
DropLast(s, n) == SubSeq(s, 1, Len(s) - n)

\* tok in s
Contains(s, tok) == \E i \in 1..Len(s) : s[i] = tok

\* "Clean up markdown code blocks": the three ifs and the final strip.
CleanFences(ai_content) ==
  LET a1 == IF StartsWith(ai_content, << TICKS, JSONWORD >>)
            THEN DropFirst(ai_content, 2) ELSE ai_content
      a2 == IF StartsWith(a1, << TICKS >>) THEN DropFirst(a1, 1) ELSE a1
      a3 == IF EndsWith(a2, << TICKS >>) THEN DropLast(a2, 1) ELSE a2
  IN  Strip(a3)

\* -------------------------------------------------------------- JSON values
\* A JSON value: its type t and its content s.  "absent" is a key that the
\* object does not have.
J(t, s) == [t |-> t, s |-> s]
Absent == J("absent", << >>)
JNull == J("null", << >>)
JStr(x) == J("str", << x >>)
JNum(x) == J("num", << x >>)
JList(x) == J("list", x)

\* dict.get(key): None for a missing key, as for a null value.
Get(v) == IF v.t = "absent" THEN JNull ELSE v

\* Python truthiness of a value ("not x" is its negation).
Truthy(v) ==
  CASE v.t = "str" -> v.s # << "" >>
    [] v.t = "num" -> v.s # << "0" >>
    [] v.t = "list" -> v.s # << >>
    [] OTHER -> FALSE

Obj(ty, msg, coll, pipe) ==
  [shape |-> "object", type |-> ty, message |-> msg,
   collection |-> coll, pipeline |-> pipe]

NonObj(shape) ==
  [shape |-> shape, type |-> Absent, message |-> Absent,
   collection |-> Absent, pipeline |-> Absent]

Invalid == NonObj("invalid")

Pipe1 == JList(<< "$match", "$group" >>)
Pipe2 == JList(<< "$count" >>)

\* The JSON bodies a model output can carry, by name.
BodyNames ==
  { "conv_hi", "conv_no_msg", "conv_num_msg", "conv_null_msg",
    "dir_accounts", "dir_loans", "dir_empty_pipe", "dir_no_pipe",
    "dir_str_pipe", "dir_no_coll", "dir_empty_coll", "dir_num_coll",
    "array", "null", "garbage" }

Body(name) ==
  CASE name = "conv_hi" -> Obj(JStr("conversation"), JStr("Hi"), Absent, Absent)
    [] name = "conv_no_msg" -> Obj(JStr("conversation"), Absent, Absent, Absent)
    [] name = "conv_num_msg" -> Obj(JStr("conversation"), JNum("5"), Absent, Absent)
    [] name = "conv_null_msg" -> Obj(JStr("conversation"), JNull, Absent, Absent)
    [] name = "dir_accounts" -> Obj(Absent, Absent, JStr("accounts"), Pipe1)
    [] name = "dir_loans" -> Obj(JStr("query"), Absent, JStr("loans"), Pipe2)
    [] name = "dir_empty_pipe" -> Obj(Absent, Absent, JStr("accounts"), JList(<< >>))
    [] name = "dir_no_pipe" -> Obj(Absent, Absent, JStr("accounts"), Absent)
    [] name = "dir_str_pipe" -> Obj(Absent, Absent, JStr("accounts"), JStr("$match"))
    [] name = "dir_no_coll" -> Obj(Absent, Absent, Absent, Pipe1)
    [] name = "dir_empty_coll" -> Obj(Absent, Absent, JStr(""), Pipe1)
    [] name = "dir_num_coll" -> Obj(Absent, Absent, JNum("5"), Pipe1)
    [] name = "array" -> NonObj("array")
    [] name = "null" -> NonObj("null")
    [] OTHER -> Invalid

\* json.loads(text): a single well-formed body parses, anything else (no
\* body, a fence marker left in the text, text around the body) raises
\* JSONDecodeError, shown as shape "invalid".
ParseJSON(text) ==
  IF Len(text) = 1 /\ text[1] \in BodyNames THEN Body(text[1]) ELSE Invalid

\* ------------------------------------------------------------- environment
Pad(b) == IF b THEN << WS >> ELSE << >>

Openings == { << >>, << TICKS >>, << TICKS, JSONWORD >> }
Closings == { << >>, << TICKS >> }
Cores == { << >> } \cup { << b >> : b \in BodyNames }

\* The texts the provider can return for the directive generation.
Texts ==
  { Pad(l) \o o \o Pad(m) \o c \o Pad(m) \o e \o Pad(l) :
      l \in BOOLEAN, o \in Openings, m \in BOOLEAN, c \in Cores,
      e \in Closings }

\* The texts the provider can return for the summary.
Summaries == { << "summary" >>, << WS, "summary", WS >>, << >> }

\* The failures of a provider call: what went wrong and the message of the
\* exception.
ProviderErrors ==
  { [cause |-> "quota", msg |-> << "429", "RESOURCE_EXHAUSTED", "Quota" >>],
    [cause |-> "quota", msg |-> << "429" >>],
    [cause |-> "quota", msg |-> << "RESOURCE_EXHAUSTED" >>],
    [cause |-> "quota", msg |-> << "QUOTA" >>],
    [cause |-> "not_found", msg |-> << "404" >>],
    [cause |-> "not_found", msg |-> << "NOT_FOUND" >>],
    [cause |-> "invalid_argument", msg |-> << "400" >>],
    [cause |-> "invalid_argument", msg |-> << "INVALID_ARGUMENT" >>],
    [cause |-> "other", msg |-> << "503", "UNAVAILABLE" >>],
    [cause |-> "other", msg |-> << "timeout" >>] }

RetryableCauses == { "quota", "not_found", "invalid_argument" }

\* str.lower() of a word of an error message
Lower(tok) == IF tok \in { "Quota", "QUOTA" } THEN "quota" ELSE tok
LowerAll(s) == [i \in 1..Len(s) |-> Lower(s[i])]

\* A record as the driver returns it, and after str() of its values.
RawDoc(i) == [t |-> "ObjectId", n |-> i]
PyStr(doc) == [doc EXCEPT !.t = "str"]

\* ------------------------------------------------------ responses, errors
NoData == [kind |-> "null", query |-> Absent, records |-> << >>]
QueryData(pipeline) == [kind |-> "query", query |-> pipeline, records |-> << >>]
ResultData(results) == [kind |-> "results", query |-> Absent, records |-> results]

\* ChatResponse(response=<kind><text>, data=data): kind is the fixed wording
\* of the message and text the part that is filled in.
ChatResponse(kind, text, data) == [kind |-> kind, text |-> text, data |-> data]
NoResponse == ChatResponse("none", << >>, NoData)

Exc(type, msg) == [type |-> type, msg |-> msg]

\* except json.JSONDecodeError (the inner try)
InnerCatchesNone(e) == FALSE

InnerCatches(e) == e.type = "JSONDecodeError"

\* except Exception (the outer try): every exception the handler's calls
\* raise is an Exception.
OuterCatchesSome(e) == e.type \in { "JSONDecodeError", "ClientError" }

OuterCatches(e) ==
  e.type \in { "JSONDecodeError", "ClientError", "AttributeError", "KeyError",
               "ValidationError", "TypeError", "OperationFailure" }

\* Where an exception raised in the inner try ends: the response returned,
\* or NoResponse when it leaves the handler.
AfterRaise(e, ai_content) ==
  IF InnerCatches(e) THEN ChatResponse("AI Error: Failed to parse response. Raw: ", ai_content, NoData)
  ELSE IF OuterCatches(e) THEN ChatResponse("An error occurred: ", e.msg, NoData)
  ELSE NoResponse

\* The same for an exception raised in the fallback loop, outside the inner
\* try.
AfterLoopRaise(e) ==
  IF OuterCatches(e) THEN ChatResponse("An error occurred: ", e.msg, NoData)
  ELSE NoResponse

\* The three "continue" tests of the fallback loop on err_str.
IsRetryableNot400(err_str) ==
  \/ Contains(err_str, "429") \/ Contains(err_str, "RESOURCE_EXHAUSTED")
  \/ Contains(LowerAll(err_str), "quota")
  \/ Contains(err_str, "404") \/ Contains(err_str, "NOT_FOUND")

IsRetryableAlways(err_str) == TRUE

IsRetryable(err_str) ==
  \/ Contains(err_str, "429") \/ Contains(err_str, "RESOURCE_EXHAUSTED")
  \/ Contains(LowerAll(err_str), "quota")
  \/ Contains(err_str, "404") \/ Contains(err_str, "NOT_FOUND")
  \/ Contains(err_str, "400") \/ Contains(err_str, "INVALID_ARGUMENT")

\* for model_name in models_to_try: the position after position i
NextIndexSame(i) == i

NextIndex(i) == i + 1

\* selected_model = model_name
SelectedFirst(model_name) == models_to_try[1]

SelectedModel(model_name) == model_name

\* model=selected_model in the summarizer call
SummarizerFirst(selected) == models_to_try[1]

SummarizerModel(selected) == selected

\* isinstance(parsed_content, dict) and parsed_content.get("type") == "conversation"
IsConversationNever(parsed) == FALSE

IsConversation(parsed) ==
  parsed.shape = "object" /\ Get(parsed.type) = JStr("conversation")

\* results[:10]
FirstRecords(results) ==
  SubSeq(results, 1, IF Len(results) < SummaryLimit THEN Len(results) ELSE SummaryLimit)

\* data={"query": pipeline} of the "No results" response
NoResultsDataNone(pipeline) == NoData

NoResultsData(pipeline) == QueryData(pipeline)

\* One call in the log of a request.
Call(op, model, coll, pipeline) ==
  [op |-> op, model |-> model, coll |-> coll, pipeline |-> pipeline]

\* -------------------------------------------------------------------- state
VARIABLES
  client_db, db,                 \* "is not None" of the two database globals
  GEMINI_API_KEY,                \* whether the key is set
  GEMINI_READY, genai_client,    \* the flag, and "is not None" of the client
  pc,                            \* position of the handler
  idx,                           \* position of the fallback loop
  ai_content, selected_model,    \* locals of chat_endpoint
  collection_name, pipeline, results,
  response,                      \* the ChatResponse returned
  outcome,                       \* "none", "returned" or "raised"
  log,                           \* the external calls of this request
  failCauses,                    \* causes of the failed candidates
  last_error,                    \* local last_error: the message of the error
  produced,                      \* the candidate that answered and its text
  returned,                      \* records the aggregation returned, -1: none
  summary_input,                 \* records and count in the summary prompt
  health                         \* the outcome of GET /health, while it is
                                 \* the latest request

vars ==
  << client_db, db, GEMINI_API_KEY, GEMINI_READY, genai_client, pc, idx,
     ai_content, selected_model, collection_name, pipeline, results, response,
     outcome, log, failCauses, last_error, produced, returned, summary_input,
     health >>

globals == << client_db, db, GEMINI_API_KEY, GEMINI_READY, genai_client >>

NoProduced == [model |-> NoModel, text |-> None]
NoSummaryInput == [given |-> FALSE, records |-> << >>, total |-> 0]

\* The outcome of health_check: status "returned" with the dictionary it
\* returns, "raised" when an exception leaves it, "none" before it ran.
HealthReport(status, ready, connected, collections) ==
  [status |-> status, gemini_ready |-> ready, mongodb_connected |-> connected,
   available_collections |-> collections]
NoReport == HealthReport("none", FALSE, FALSE, << >>)
HealthRaised == HealthReport("raised", FALSE, FALSE, << >>)

\* The lists db.list_collection_names() can return.
CollectionLists == { << >>, << "accounts", "loans" >> }

\* The module-level database connection: no URI or MongoClient raises (both
\* None), get_database raises (client only), both succeed.
StartupDb ==
  { [client_db |-> FALSE, db |-> FALSE],
    [client_db |-> TRUE, db |-> FALSE],
    [client_db |-> TRUE, db |-> TRUE] }

\* initialize_gemini(): the (GEMINI_READY, genai_client) it can leave.
InitializeGemini(ready, client, key) ==
  IF ready /\ client THEN { << ready, client >> }
  ELSE IF ~key THEN { << ready, client >> }
  ELSE { << TRUE, TRUE >>, << ready, client >> }

Init ==
  /\ \E s \in StartupDb : client_db = s.client_db /\ db = s.db
  /\ GEMINI_API_KEY \in BOOLEAN
  /\ \E g \in InitializeGemini(FALSE, FALSE, GEMINI_API_KEY) :
       GEMINI_READY = g[1] /\ genai_client = g[2]
  /\ pc = "idle"
  /\ idx = 1
  /\ ai_content = None
  /\ selected_model = NoModel
  /\ collection_name = JNull
  /\ pipeline = JNull
  /\ results = << >>
  /\ response = NoResponse
  /\ outcome = "none"
  /\ log = << >>
  /\ failCauses = {}
  /\ last_error = None
  /\ produced = NoProduced
  /\ returned = -1
  /\ summary_input = NoSummaryInput
  /\ health = NoReport

\* The handler ends with resp, or with an exception when resp is NoResponse.
Finish(resp) ==
  /\ pc' = "done"
  /\ response' = resp
  /\ outcome' = IF resp = NoResponse THEN "raised" ELSE "returned"

\* ------------------------------------------------------------------ actions
\* chat_endpoint up to the fallback loop: the lazy initialization and the
\* two configuration checks.
ChatBegin ==
  /\ pc \in { "idle", "done" }
  /\ \E g \in (IF ~GEMINI_READY
               THEN InitializeGemini(GEMINI_READY, genai_client, GEMINI_API_KEY)
               ELSE { << GEMINI_READY, genai_client >> }) :
       /\ GEMINI_READY' = g[1]
       /\ genai_client' = g[2]
       /\ IF ~db
          THEN /\ Finish(ChatResponse("The AI Banking Assistant is not connected to the database.", << >>, NoData))
               /\ idx' = 1
          ELSE IF ~g[1] \/ ~g[2]
          THEN /\ Finish(ChatResponse("The AI Banking Assistant is not correctly initialized.", << >>, NoData))
               /\ idx' = 1
          ELSE /\ pc' = "dispatch"
               /\ idx' = 1
               /\ response' = NoResponse
               /\ outcome' = "none"
  /\ ai_content' = None
  /\ selected_model' = NoModel
  /\ collection_name' = JNull
  /\ pipeline' = JNull
  /\ results' = << >>
  /\ log' = << >>
  /\ failCauses' = {}
  /\ last_error' = None
  /\ produced' = NoProduced
  /\ returned' = -1
  /\ summary_input' = NoSummaryInput
  /\ health' = NoReport
  /\ UNCHANGED << client_db, db, GEMINI_API_KEY >>

\* The except clause of the fallback loop for the candidate at idx, which
\* failed with exception e for the given cause.
CandidateFailed(e, cause) ==
  /\ failCauses' = failCauses \cup { cause }
  /\ last_error' = e.msg
  /\ IF IsRetryable(e.msg)
     THEN IF NextIndex(idx) > NumModels
          THEN \* the loop ends with ai_content None
               /\ Finish(ChatResponse("All Gemini models have exceeded their quota.", << >>, NoData))
               /\ idx' = NextIndex(idx)
          ELSE /\ idx' = NextIndex(idx)
               /\ UNCHANGED << pc, response, outcome >>
     ELSE /\ Finish(AfterLoopRaise(e))
          /\ UNCHANGED idx
  /\ UNCHANGED << ai_content, selected_model, produced >>

\* One iteration of "for model_name in models_to_try": generate_content for
\* the candidate at idx, which returns a text, returns no text, or raises.
TryModel ==
  /\ pc = "dispatch"
  /\ idx \in 1..NumModels
  /\ LET model_name == models_to_try[idx] IN
     /\ log' = Append(log, Call("generate", model_name, JNull, JNull))
     /\ \/ \E text \in Texts :
             /\ ai_content' = Strip(text)
             /\ selected_model' = SelectedModel(model_name)
             /\ produced' = [model |-> model_name, text |-> text]
             /\ pc' = "interpret"
             /\ UNCHANGED << idx, response, outcome, failCauses, last_error >>
        \/ \* response.text is None: .strip() raises inside the try
           CandidateFailed(
             Exc("AttributeError", << "'NoneType' object has no attribute 'strip'" >>),
             "no_text")
        \/ \E err \in ProviderErrors :
             CandidateFailed(Exc("ClientError", err.msg), err.cause)
  /\ UNCHANGED << globals, health, collection_name, pipeline, results, returned,
                  summary_input >>

\* ChatResponse(response=parsed_content["message"]): the responses it can end
\* in.  A message that is not a string is rejected by the response model, or
\* converted to a string by an older one.
ConversationReplies(parsed, content) ==
  CASE parsed.message.t = "absent" ->
         { AfterRaise(Exc("KeyError", << "'message'" >>), content) }
    [] parsed.message.t = "str" ->
         { ChatResponse("", parsed.message.s, NoData) }
    [] parsed.message.t = "num" ->
         { AfterRaise(Exc("ValidationError", << "validation error for ChatResponse" >>), content),
           ChatResponse("", parsed.message.s, NoData) }
    [] OTHER ->
         { AfterRaise(Exc("ValidationError", << "validation error for ChatResponse" >>), content) }

\* From the code-fence clean-up to the decision to query: parse, the
\* conversation reply, the collection and pipeline check.
Interpret ==
  /\ pc = "interpret"
  /\ LET content == CleanFences(ai_content)
         parsed == ParseJSON(content)
     IN
     /\ ai_content' = content
     /\ IF parsed.shape = "invalid"
        THEN /\ Finish(AfterRaise(Exc("JSONDecodeError", << "Expecting value" >>), content))
             /\ UNCHANGED << collection_name, pipeline >>
        ELSE IF IsConversation(parsed)
        THEN /\ \E r \in ConversationReplies(parsed, content) : Finish(r)
             /\ UNCHANGED << collection_name, pipeline >>
        ELSE IF parsed.shape # "object"
        THEN /\ Finish(AfterRaise(Exc("AttributeError", << "object has no attribute 'get'" >>), content))
             /\ UNCHANGED << collection_name, pipeline >>
        ELSE /\ collection_name' = Get(parsed.collection)
             /\ pipeline' = Get(parsed.pipeline)
             /\ IF ~Truthy(Get(parsed.collection)) \/ ~Truthy(Get(parsed.pipeline))
                THEN Finish(ChatResponse("Sorry, I couldn't understand how to query the database for that.", << >>, NoData))
                ELSE /\ pc' = "query"
                     /\ UNCHANGED << response, outcome >>
  /\ UNCHANGED << globals, health, idx, selected_model, results, log, failCauses,
                  last_error, produced, returned, summary_input >>

\* db[collection_name], collection.aggregate(pipeline), the conversion of the
\* values to strings and the empty-result reply.
ExecuteQuery ==
  /\ pc = "query"
  /\ IF collection_name.t # "str"
     THEN \* db[collection_name] raises: the name must be a string
          /\ Finish(AfterRaise(Exc("TypeError", << "name must be an instance of str" >>), ai_content))
          /\ UNCHANGED << results, log, returned >>
     ELSE /\ log' = Append(log, Call("aggregate", NoModel, collection_name, pipeline))
          /\ \/ \* the driver or the server rejects the pipeline
                /\ Finish(AfterRaise(
                     IF pipeline.t # "list"
                     THEN Exc("TypeError", << "pipeline must be a list" >>)
                     ELSE Exc("OperationFailure", << "Unrecognized pipeline stage name" >>),
                     ai_content))
                /\ UNCHANGED << results, returned >>
             \/ /\ pipeline.t = "list"
                /\ \E n \in 0..MaxRecords :
                     LET raw == [i \in 1..n |-> RawDoc(i)]
                         converted == [i \in 1..n |-> PyStr(raw[i])]
                     IN
                     /\ returned' = n
                     /\ results' = converted
                     /\ IF Len(converted) = 0
                        THEN Finish(ChatResponse("No results found for your query in the <text> collection.",
                                                 collection_name.s, NoResultsData(pipeline)))
                        ELSE /\ pc' = "summarize"
                             /\ UNCHANGED << response, outcome >>
  /\ UNCHANGED << globals, health, idx, ai_content, selected_model, collection_name,
                  pipeline, failCauses, last_error, produced, summary_input >>

\* The summary prompt, the second generate_content call and the final reply.
Summarize ==
  /\ pc = "summarize"
  /\ summary_input' = [given |-> TRUE, records |-> FirstRecords(results),
                       total |-> Len(results)]
  /\ log' = Append(log, Call("summarize", SummarizerModel(selected_model), JNull, JNull))
  /\ \/ \E text \in Summaries :
          Finish(ChatResponse("", Strip(text), ResultData(results)))
     \/ Finish(AfterRaise(
          Exc("AttributeError", << "'NoneType' object has no attribute 'strip'" >>),
          ai_content))
     \/ \E err \in ProviderErrors :
          Finish(AfterRaise(Exc("ClientError", err.msg), ai_content))
  /\ UNCHANGED << globals, health, idx, ai_content, selected_model, collection_name,
                  pipeline, results, failCauses, last_error, produced, returned >>

\* health_check: the dictionary is built from the globals; the collection
\* names are asked of db when client_db is not None, and the call raises
\* AttributeError when db is None, or a driver error when the server cannot
\* be reached.  The handler has no try.  It runs between two chat requests,
\* whose locals are gone by then.
Health ==
  /\ pc \in { "idle", "done" }
  /\ IF client_db
     THEN IF db
          THEN \/ \E names \in CollectionLists :
                    health' = HealthReport("returned", GEMINI_READY, client_db, names)
               \/ health' = HealthRaised
          ELSE health' = HealthRaised
     ELSE health' = HealthReport("returned", GEMINI_READY, client_db, << >>)
  /\ pc' = "idle"
  /\ idx' = 1
  /\ ai_content' = None
  /\ selected_model' = NoModel
  /\ collection_name' = JNull
  /\ pipeline' = JNull
  /\ results' = << >>
  /\ response' = NoResponse
  /\ outcome' = "none"
  /\ log' = << >>
  /\ failCauses' = {}
  /\ last_error' = None
  /\ produced' = NoProduced
  /\ returned' = -1
  /\ summary_input' = NoSummaryInput
  /\ UNCHANGED globals

Next == ChatBegin \/ TryModel \/ Interpret \/ ExecuteQuery \/ Summarize \/ Health

Spec == Init /\ [][Next]_vars

\* --------------------------------------------------------------- properties
IsGenerate(c) == c.op = "generate"
IsAggregate(c) == c.op = "aggregate"
IsSummarize(c) == c.op = "summarize"

Generates == SelectSeq(log, IsGenerate)
Aggregates == SelectSeq(log, IsAggregate)
Summarizes == SelectSeq(log, IsSummarize)

\* A candidate returned a text in this request.
Answered == produced.model # NoModel

\* The model's output after the trimming and the code-fence clean-up, and
\* its parse.
CleanedOutput == CleanFences(Strip(produced.text))
ParsedOutput == ParseJSON(CleanedOutput)

\* sub occurs in s as a contiguous part
ContainsSeq(s, sub) ==
  \E i \in 0..(Len(s) - Len(sub)) : SubSeq(s, i + 1, i + Len(sub)) = sub

ErrorReply(msg) == ChatResponse("An error occurred: ", msg, NoData)
QuotaReply == ChatResponse("All Gemini models have exceeded their quota.", << >>, NoData)
NotUnderstoodReply ==
  ChatResponse("Sorry, I couldn't understand how to query the database for that.", << >>, NoData)

\* C1: the candidates are invoked one at a time in list order, each at most
\* once; once a candidate has answered, every earlier candidate failed with
\* a retryable cause, the answering candidate is the last one invoked, it is
\* the selected model, and the text used is its output.
C1_FirstSuccessInOrder ==
  /\ Len(Generates) <= NumModels
  /\ \A k \in 1..Len(Generates) : Generates[k].model = models_to_try[k]
  /\ Answered =>
       /\ failCauses \subseteq RetryableCauses
       /\ Generates[Len(Generates)].model = produced.model
       /\ selected_model = produced.model
       /\ pc = "interpret" => ai_content = Strip(produced.text)
       /\ pc # "interpret" => ai_content = CleanedOutput

\* The second candidate answered after the first failed on quota.
C1_Witness ==
  /\ pc = "done"
  /\ produced.model = models_to_try[2]
  /\ failCauses = { "quota" }
  /\ Len(Generates) = 2
  /\ response = ChatResponse("", << "Hi" >>, NoData)

\* C2: a candidate failure with a cause other than quota, not-found or
\* invalid-argument ends the request at once: the failing candidate is the
\* last call of the request, nothing was asked of the database or the
\* summarizer, and the reply is "An error occurred: <error text>" without
\* data.
C2_OtherErrorAborts ==
  (failCauses \ RetryableCauses # {}) =>
    /\ pc = "done"
    /\ outcome = "returned"
    /\ response = ErrorReply(last_error)
    /\ ~Answered
    /\ Aggregates = << >> /\ Summarizes = << >>
    /\ log # << >> /\ log = Generates
    /\ \A k \in 1..Len(log) : log[k].model = models_to_try[k]

\* The third candidate failed with a timeout after two retryable failures.
C2_Witness ==
  /\ pc = "done"
  /\ Len(log) = 3
  /\ failCauses = { "quota", "not_found", "other" }
  /\ response = ErrorReply(<< "timeout" >>)

\* C3: when the fallback loop is over without an answer and every failure had
\* a retryable cause, every candidate was invoked exactly once, in order,
\* nothing else was called, and the reply is the quota advisory without data.
C3_AllExhausted ==
  (pc = "done" /\ log # << >> /\ ~Answered /\ failCauses \subseteq RetryableCauses) =>
    /\ log = [k \in 1..NumModels |-> Call("generate", models_to_try[k], JNull, JNull)]
    /\ outcome = "returned"
    /\ response = QuotaReply

\* All six candidates failed, with all three retryable causes among them.
C3_Witness ==
  /\ pc = "done"
  /\ Len(log) = NumModels
  /\ failCauses = RetryableCauses
  /\ response = QuotaReply

\* C4: the handler never ends with an exception: whenever it has ended, it
\* has returned a ChatResponse.
C4_NeverRaises ==
  /\ outcome # "raised"
  /\ pc = "done" => (outcome = "returned" /\ response # NoResponse)
  /\ pc # "done" => outcome = "none"

\* The handler returned after a KeyError for the missing message field.
C4_Witness ==
  /\ pc = "done"
  /\ outcome = "returned"
  /\ ParsedOutput = Body("conv_no_msg")
  /\ response = ErrorReply(<< "'message'" >>)

\* C5 as stated: at most two calls to the provider and one to the database.
C5_Original ==
  /\ Len(Generates) + Len(Summarizes) <= 2
  /\ Len(Aggregates) <= 1

\* C5 as amended: at most one directive generation call per candidate, hence
\* at most NumModels of them, then at most one summarization call, and at
\* most one call to the database.
C5_CallBudget ==
  /\ Len(Generates) <= NumModels
  /\ Len(Summarizes) <= 1
  /\ Len(Aggregates) <= 1
  /\ Len(log) = Len(Generates) + Len(Aggregates) + Len(Summarizes)

\* Five candidates failed, the sixth answered, the summary was asked for.
C5_Witness ==
  /\ pc = "done"
  /\ Len(Generates) = NumModels
  /\ Len(Aggregates) = 1
  /\ Len(Summarizes) = 1

\* The output parsed to an object whose type is "conversation".
ConversationOutput ==
  /\ Answered
  /\ ParsedOutput.shape = "object"
  /\ ParsedOutput.type = JStr("conversation")

\* C6 as stated: a conversation object is answered with exactly its message
\* field and no data, without a database or summarizer call.
C6_Original ==
  (pc = "done" /\ ConversationOutput) =>
    /\ response = ChatResponse("", ParsedOutput.message.s, NoData)
    /\ Aggregates = << >> /\ Summarizes = << >>

\* C6 as amended: a conversation object never leads to a database or
\* summarizer call and is answered without data; the reply is exactly its
\* message field when that field is a string.
C6_ConversationReply ==
  (pc = "done" /\ ConversationOutput) =>
    /\ outcome = "returned"
    /\ response.data = NoData
    /\ Aggregates = << >> /\ Summarizes = << >>
    /\ ParsedOutput.message.t = "str" =>
         response = ChatResponse("", ParsedOutput.message.s, NoData)

\* The reply "Hi" to a conversation object that came inside code fences.
C6_Witness ==
  /\ pc = "done"
  /\ produced.text = << TICKS, JSONWORD, WS, "conv_hi", WS, TICKS >>
  /\ response = ChatResponse("", << "Hi" >>, NoData)

\* The output is not valid JSON after the clean-up.
InvalidOutput == Answered /\ ParsedOutput.shape = "invalid"

ParseErrorReply(text) ==
  ChatResponse("AI Error: Failed to parse response. Raw: ", text, NoData)

\* C7 as stated: the reply to an output that is not valid JSON contains the
\* text as the model produced it.
C7_Original ==
  (pc = "done" /\ InvalidOutput) =>
    /\ response.kind = "AI Error: Failed to parse response. Raw: "
    /\ ContainsSeq(response.text, produced.text)
    /\ Aggregates = << >> /\ Summarizes = << >>

\* C7 as amended: the reply to an output that is not valid JSON is the parse
\* advisory followed by the output after trimming and code-fence clean-up,
\* without data and without a database or summarizer call; that text is the
\* produced text itself when it had nothing to trim or clean.
C7_ParseErrorReply ==
  (pc = "done" /\ InvalidOutput) =>
    /\ outcome = "returned"
    /\ response = ParseErrorReply(CleanedOutput)
    /\ ContainsSeq(produced.text, response.text)
    /\ (~StartsWith(produced.text, << TICKS >>) /\ ~EndsWith(produced.text, << TICKS >>)
        /\ Strip(produced.text) = produced.text) => response.text = produced.text
    /\ Aggregates = << >> /\ Summarizes = << >>

\* Malformed text inside code fences: the reply carries it without them.
C7_Witness ==
  /\ pc = "done"
  /\ produced.text = << TICKS, JSONWORD, WS, "garbage", WS, TICKS >>
  /\ response = ParseErrorReply(<< "garbage" >>)

\* The output is valid JSON and not a conversation object.
DirectiveOutput ==
  /\ Answered
  /\ ParsedOutput.shape # "invalid"
  /\ ~ConversationOutput

\* The output has a non-empty collection and a non-empty pipeline.
HasBothFields ==
  /\ ParsedOutput.shape = "object"
  /\ Truthy(Get(ParsedOutput.collection))
  /\ Truthy(Get(ParsedOutput.pipeline))

\* C8: valid JSON that is not a conversation reply and lacks a non-empty
\* collection or pipeline, a value that is not an object included, gets the
\* "couldn't understand" advisory and no database call; the database is
\* queried only when both fields are present and non-empty.
C8_Original ==
  /\ (pc = "done" /\ DirectiveOutput /\ ~HasBothFields) =>
       (response = NotUnderstoodReply /\ Aggregates = << >>)
  /\ Aggregates # << >> => (DirectiveOutput /\ HasBothFields)

\* A directive ran and the database returned the given number of records.
QueryReturned(n) == Answered /\ returned = n

NoResultsReply(coll, pipe) ==
  ChatResponse("No results found for your query in the <text> collection.", coll, QueryData(pipe))

\* C9: when the aggregation returns no record, the reply is the "No results
\* found" message naming the directive's collection, its data.query is the
\* pipeline that was passed to the database, and the summarizer is not
\* called.
C9_NoResults ==
  QueryReturned(0) =>
    /\ pc = "done"
    /\ outcome = "returned"
    /\ Len(Aggregates) = 1
    /\ Aggregates[1].coll = ParsedOutput.collection
    /\ Aggregates[1].pipeline = ParsedOutput.pipeline
    /\ response = NoResultsReply(ParsedOutput.collection.s, Aggregates[1].pipeline)
    /\ Summarizes = << >>
    /\ ~summary_input.given

\* The loans directive returned nothing.
C9_Witness ==
  /\ QueryReturned(0)
  /\ response = NoResultsReply(<< "loans" >>, Pipe2)
  /\ produced.model = models_to_try[2]

\* The records of a result of n records, as converted for the reply.
Converted(n) == [i \in 1..n |-> PyStr(RawDoc(i))]

\* C10: when the aggregation returns at least one record, the summarizer is
\* called exactly once, as the last call and after the database call, with
\* the model that answered in the fallback loop, and it is given the first
\* SummaryLimit records and the total count; when it returns a text, the
\* reply carries all the records.
C10_Summarizer ==
  (pc = "done" /\ Answered /\ returned >= 1) =>
    /\ outcome = "returned"
    /\ Len(Summarizes) = 1
    /\ Len(Aggregates) = 1
    /\ log[Len(log)].op = "summarize"
    /\ log[Len(log) - 1].op = "aggregate"
    /\ Summarizes[1].model = produced.model
    /\ summary_input.given
    /\ summary_input.total = returned
    /\ Len(summary_input.records) <= SummaryLimit
    /\ summary_input.records =
         [i \in 1..(IF returned < SummaryLimit THEN returned ELSE SummaryLimit) |->
            PyStr(RawDoc(i))]
    /\ response.kind = "" =>
         (response.data = ResultData(Converted(returned)) /\ Len(response.data.records) = returned)
    /\ response.kind # "" => response \in { ErrorReply(e.msg) : e \in ProviderErrors }
                               \cup { ErrorReply(<< "'NoneType' object has no attribute 'strip'" >>) }

\* More records than the summary takes, answered by the third candidate.
C10_Witness ==
  /\ pc = "done"
  /\ returned = SummaryLimit + 2
  /\ Len(summary_input.records) = SummaryLimit
  /\ produced.model = models_to_try[3]
  /\ response = ChatResponse("", << "summary" >>, ResultData(Converted(SummaryLimit + 2)))

\* C11: for every start-up outcome GET /health completes; its
\* available_collections is the empty list whenever there is no database
\* handle (db is None), and its mongodb_connected flag is true exactly when
\* the database check of POST /chat (db is not None) passes.
C11_Original ==
  /\ (health.status # "none" /\ ~db) =>
       (health.status = "returned" /\ health.available_collections = << >>)
  /\ health.status = "returned" => (health.mongodb_connected <=> db)

====
